---- MODULE Spec2Model ----
(***************************************************************************)
(* Model of yellow-scraper.py: a sequential script that fetches paginated *)
(* search-result pages, extracts the restaurant listings that have no     *)
(* website link, and writes them to a CSV file.                           *)
(*                                                                         *)
(* Text is a sequence of one-character strings (a few long literals are   *)
(* kept as a single token).  Python's None is modelled by a record whose  *)
(* "present"/"set"/"exists" field is FALSE.                                *)
(***************************************************************************)
EXTENDS Integers, Sequences, FiniteSets, TLC

VARIABLES
    argv,             \* sys.argv
    pc,               \* position of the interpreter in the script
    location,         \* __main__'s location (text)
    search_url,       \* scrape_yellow_pages' loop variable: a URL or None
    all_restaurants,  \* scrape_yellow_pages' accumulator
    soup,             \* document returned by the last fetch_page
    restaurants,      \* parse_restaurants' result list
    idx,              \* parse_restaurants' position in restaurant_list
    web,              \* what the site has answered so far, per URL
    fetched,          \* the GET requests issued, in order
    file,             \* the output file of this run
    saveCalls,        \* number of calls of save_to_csv
    console,          \* lines printed
    exitcode,         \* process exit status once pc = "exit"
    exc               \* the exception that ended the process, if any

vars == <<argv, pc, location, search_url, all_restaurants, soup, restaurants,
          idx, web, fetched, file, saveCalls, console, exitcode, exc>>

-----------------------------------------------------------------------------
(* Bounds of the model *)

\* the crawl is cut after this many GET requests
MaxFetches == 4

\* longest list of listing blocks of a document given to parse_restaurants alone
MaxBlocks == 2

-----------------------------------------------------------------------------
(* Text *)

Whitespace == {" ", "\n"}

RECURSIVE lstrip(_)
lstrip(s) ==
    IF s = <<>> THEN <<>>
    ELSE IF Head(s) \in Whitespace THEN lstrip(Tail(s)) ELSE s

RECURSIVE rstrip(_)
rstrip(s) ==
    IF s = <<>> THEN <<>>
    ELSE IF s[Len(s)] \in Whitespace THEN rstrip(SubSeq(s, 1, Len(s) - 1)) ELSE s

\* str.strip()
strip(s) == rstrip(lstrip(s))

\* one character under urllib.parse.quote_plus
QuoteChar(c) ==
    IF c = " " THEN <<"+">>
    ELSE IF c = "," THEN <<"%", "2", "C">>
    ELSE <<c>>

RECURSIVE quote_plus(_)
quote_plus(s) ==
    IF s = <<>> THEN <<>> ELSE QuoteChar(Head(s)) \o quote_plus(Tail(s))

-----------------------------------------------------------------------------
(* URLs and hrefs *)

NoStr == ""

\* base_url = "https://www.yellowpages.com"
base_url == [scheme |-> "https", host |-> "www.yellowpages.com", path |-> <<>>]

OtherHost == "ads.example.net"

NoneUrl == [set |-> FALSE, scheme |-> NoStr, host |-> NoStr, path |-> <<>>]

Url(scheme, host, path) ==
    [set |-> TRUE, scheme |-> scheme, host |-> host, path |-> path]

\* f"{base_url}/search?search_terms=restaurants&geo_location_terms={quote_plus(location)}"
SearchPath(loc) ==
    <<"/search?search_terms=restaurants&geo_location_terms=">> \o quote_plus(loc)

SearchUrl(loc) == Url(base_url.scheme, base_url.host, base_url.path \o SearchPath(loc))

Page2Path == <<"/search?page=2">>

\* An href attribute value: absent, or a URL reference split into its parts.
\* scheme = NoStr /\ host = NoStr : a path reference   ("/search?page=2", "")
\* scheme = NoStr /\ host # NoStr : a network-path reference ("//host/path")
\* scheme # NoStr                 : an absolute URL
NoHref == [present |-> FALSE, scheme |-> NoStr, host |-> NoStr, path |-> <<>>]

Href(scheme, host, path) ==
    [present |-> TRUE, scheme |-> scheme, host |-> host, path |-> path]

EmptyHref == Href(NoStr, NoStr, <<>>)

\* truth value of next_button.get("href"): None and "" are false
HrefTruthy(h) == h.present /\ h # EmptyHref

\* urllib.parse.urljoin(base, href) for a base without path
urljoin(base, h) ==
    IF h.scheme # NoStr THEN Url(h.scheme, h.host, h.path)
    ELSE IF h.host # NoStr THEN Url(base.scheme, h.host, h.path)
    ELSE IF h.path = <<>> THEN Url(base.scheme, base.host, base.path)
    ELSE Url(base.scheme, base.host, h.path)

-----------------------------------------------------------------------------
(* Documents *)

NoElement == [present |-> FALSE, text |-> <<>>]
Element(t) == [present |-> TRUE, text |-> t]

\* the first <a class="next"> of a document: absent, or an anchor with its href
NoNext == [present |-> FALSE, href |-> NoHref]
NextButton(h) == [present |-> TRUE, href |-> h]

\* a <div class="info">: its business-name anchor, whether it holds a
\* track-visit-website anchor, and its phones div
Block(n, w, p) == [name |-> n, website |-> w, phone |-> p]

Document(bs, nx) == [blocks |-> bs, next |-> nx]

EmptySoup == Document(<<>>, NoNext)

Sentinel == <<"No phone number available">>

NameElements == {NoElement, Element(<<" ", "A", "\n">>), Element(<<"B", " ", "b">>)}

PhoneElements ==
    {NoElement, Element(<<>>), Element(<<" ", "5", " ", "5", " ">>), Element(Sentinel)}

Blocks == {Block(n, w, p) : n \in NameElements, w \in BOOLEAN, p \in PhoneElements}

SeqsUpTo(S, n) == UNION {[1..k -> S] : k \in 0..n}

-----------------------------------------------------------------------------
(* The site, as the crawl sees it *)

Joe      == Block(Element(<<" ", "A", "\n">>), FALSE, Element(<<" ", "5", " ", "5", " ">>))
WithSite == Block(Element(<<"B", " ", "b">>), TRUE, NoElement)
NoPhone  == Block(Element(<<"B", " ", "b">>), FALSE, NoElement)
Nameless == Block(NoElement, TRUE, Element(<<" ", "5", " ", "5", " ">>))

\* listing blocks of the result pages served to the crawl
CrawlBlockSeqs ==
    {<<>>, <<WithSite>>, <<WithSite, Joe>>, <<Joe, NoPhone>>, <<Joe, Nameless>>}

\* what the first <a class="next"> of a served page may be
NextButtons(loc) ==
    {NoNext, NextButton(NoHref), NextButton(EmptyHref),
     NextButton(Href(NoStr, NoStr, Page2Path)),
     NextButton(Href(NoStr, NoStr, SearchPath(loc))),
     NextButton(Href(base_url.scheme, base_url.host, Page2Path)),
     NextButton(Href(base_url.scheme, OtherHost, Page2Path)),
     NextButton(Href(NoStr, OtherHost, Page2Path))}

\* requests.get(url) + raise_for_status(): a RequestException, or a body
Responses(loc) ==
    {[ok |-> FALSE, doc |-> EmptySoup]}
    \cup {[ok |-> TRUE, doc |-> Document(bs, nx)] :
            bs \in CrawlBlockSeqs, nx \in NextButtons(loc)}

Seen(u) == \E r \in web : r.url = u
Answer(u) == CHOOSE r \in web : r.url = u

-----------------------------------------------------------------------------
(* Initial state *)

Script == <<"yellow-scraper.py">>

Locations == {<<"C", ",", " ", "I", "L">>, <<"N", "Y">>}

Argvs == {<<Script>>} \cup {<<Script, l>> : l \in Locations}
         \cup {<<Script, l, <<"x">>>> : l \in Locations}

NoFile == [exists |-> FALSE, name |-> <<>>, rows |-> <<>>]

Init ==
    /\ argv \in Argvs
    /\ pc = "main"
    /\ location = <<>>
    /\ search_url = NoneUrl
    /\ all_restaurants = <<>>
    /\ soup = EmptySoup
    /\ restaurants = <<>>
    /\ idx = 1
    /\ web = {}
    /\ fetched = <<>>
    /\ file = NoFile
    /\ saveCalls = 0
    /\ console = <<>>
    /\ exitcode = -1
    /\ exc = "none"

-----------------------------------------------------------------------------
(* The script, one action per step *)

\* sys.exit(1) after printing msg
Exit1(msg) ==
    /\ console' = Append(console, msg)
    /\ exitcode' = 1
    /\ exc' = "SystemExit"
    /\ pc' = "exit"

\* a __main__ that falls back to an empty location instead of exiting
Main_DefaultLocation ==
    /\ pc = "main"
    /\ location' = IF Len(argv) > 1 THEN argv[2] ELSE <<>>
    /\ pc' = "scrape"
    /\ UNCHANGED <<argv, search_url, all_restaurants, soup, restaurants, idx,
                   web, fetched, file, saveCalls, console, exitcode, exc>>

\* __main__, lines 67-72
Main ==
    /\ pc = "main"
    /\ IF Len(argv) > 1
       THEN /\ location' = argv[2]
            /\ pc' = "scrape"
            /\ UNCHANGED <<console, exitcode, exc>>
       ELSE /\ Exit1("Usage: python script_name.py 'Location'")
            /\ UNCHANGED location
    /\ UNCHANGED <<argv, search_url, all_restaurants, soup, restaurants, idx,
                   web, fetched, file, saveCalls>>

\* scrape_yellow_pages, lines 46-49
ScrapeInit ==
    /\ pc = "scrape"
    /\ search_url' = SearchUrl(location)
    /\ all_restaurants' = <<>>
    /\ pc' = "while"
    /\ UNCHANGED <<argv, location, soup, restaurants, idx, web, fetched, file,
                   saveCalls, console, exitcode, exc>>

\* a loop with a page cap of two
WhileTest_PageCap ==
    /\ pc = "while"
    /\ pc' = IF search_url.set /\ Len(fetched) < 2 THEN "fetch" ELSE "save"
    /\ UNCHANGED <<argv, location, search_url, all_restaurants, soup,
                   restaurants, idx, web, fetched, file, saveCalls, console,
                   exitcode, exc>>

\* while search_url:  (line 51; line 57 and line 74 when it is false)
WhileTest ==
    /\ pc = "while"
    /\ pc' = IF search_url.set THEN "fetch" ELSE "save"
    /\ UNCHANGED <<argv, location, search_url, all_restaurants, soup,
                   restaurants, idx, web, fetched, file, saveCalls, console,
                   exitcode, exc>>

\* a fetch_page that reports the failure and returns None, read as an empty page
OnRequestException_ReturnsEmpty ==
    /\ console' = Append(console, "Request failed")
    /\ soup' = EmptySoup
    /\ restaurants' = <<>>
    /\ idx' = 1
    /\ pc' = "parse"
    /\ UNCHANGED <<exitcode, exc>>

\* except requests.RequestException: print(...); sys.exit(1), lines 21-23
OnRequestException ==
    /\ Exit1("Request failed")
    /\ UNCHANGED <<soup, restaurants, idx>>

\* fetch_page(search_url), lines 15-23, and the entry of parse_restaurants
FetchPage ==
    /\ pc = "fetch"
    /\ Len(fetched) < MaxFetches
    /\ fetched' = Append(fetched, search_url)
    /\ \E r \in Responses(location) :
          /\ IF Seen(search_url)
             THEN r = [ok |-> Answer(search_url).ok, doc |-> Answer(search_url).doc]
             ELSE TRUE
          /\ web' = web \cup {[url |-> search_url, ok |-> r.ok, doc |-> r.doc]}
          /\ IF r.ok
             THEN /\ soup' = r.doc
                  /\ restaurants' = <<>>
                  /\ idx' = 1
                  /\ pc' = "parse"
                  /\ UNCHANGED <<console, exitcode, exc>>
             ELSE OnRequestException
    /\ UNCHANGED <<argv, location, search_url, all_restaurants, file, saveCalls>>

\* a fallback that tests the element's text instead of the element
PhoneNumber_TestsText(b) ==
    IF b.phone.present /\ strip(b.phone.text) # <<>>
    THEN strip(b.phone.text)
    ELSE Sentinel

\* phone_element.text.strip() if phone_element else "No phone number available"
PhoneNumber(b) == IF b.phone.present THEN strip(b.phone.text) ELSE Sentinel

\* a loop body with the website test inverted
AppendListing_Inverted(rs, b) ==
    IF b.website
    THEN Append(rs, <<strip(b.name.text),
                      IF b.phone.present THEN strip(b.phone.text) ELSE Sentinel>>)
    ELSE rs

\* the list after one pass of the loop body, lines 30-35, on a block with a name
AppendListing(rs, b) ==
    IF ~b.website THEN Append(rs, <<strip(b.name.text), PhoneNumber(b)>>) ELSE rs

\* a loop body that tests the website link before it reads the name
ParseBlock_WebsiteFirst ==
    /\ pc = "parse"
    /\ idx <= Len(soup.blocks)
    /\ IF soup.blocks[idx].website
       THEN /\ idx' = idx + 1
            /\ UNCHANGED <<restaurants, pc, exitcode, exc>>
       ELSE IF soup.blocks[idx].name.present
       THEN /\ restaurants' = AppendListing(restaurants, soup.blocks[idx])
            /\ idx' = idx + 1
            /\ UNCHANGED <<pc, exitcode, exc>>
       ELSE /\ exc' = "AttributeError"
            /\ exitcode' = 1
            /\ pc' = "exit"
            /\ UNCHANGED <<restaurants, idx>>
    /\ UNCHANGED <<argv, location, search_url, all_restaurants, soup, web,
                   fetched, file, saveCalls, console>>

\* one iteration of parse_restaurants' for loop, lines 29-35
ParseBlock ==
    /\ pc = "parse"
    /\ idx <= Len(soup.blocks)
    /\ IF soup.blocks[idx].name.present
       THEN /\ restaurants' = AppendListing(restaurants, soup.blocks[idx])
            /\ idx' = idx + 1
            /\ UNCHANGED <<pc, exitcode, exc>>
       ELSE \* None.text raises AttributeError, which nothing catches
            /\ exc' = "AttributeError"
            /\ exitcode' = 1
            /\ pc' = "exit"
            /\ UNCHANGED <<restaurants, idx>>
    /\ UNCHANGED <<argv, location, search_url, all_restaurants, soup, web,
                   fetched, file, saveCalls, console>>

\* return restaurants, line 36
ParseReturn ==
    /\ pc = "parse"
    /\ idx > Len(soup.blocks)
    /\ pc' = "extend"
    /\ UNCHANGED <<argv, location, search_url, all_restaurants, soup,
                   restaurants, idx, web, fetched, file, saveCalls, console,
                   exitcode, exc>>

\* an accumulator that is assigned instead of extended
Extend_Assigns ==
    /\ pc = "extend"
    /\ all_restaurants' = restaurants
    /\ pc' = "next"
    /\ UNCHANGED <<argv, location, search_url, soup, restaurants, idx, web,
                   fetched, file, saveCalls, console, exitcode, exc>>

\* all_restaurants.extend(restaurants), line 54
Extend ==
    /\ pc = "extend"
    /\ all_restaurants' = all_restaurants \o restaurants
    /\ pc' = "next"
    /\ UNCHANGED <<argv, location, search_url, soup, restaurants, idx, web,
                   fetched, file, saveCalls, console, exitcode, exc>>

\* a paginator that does not test the href
get_next_page_url_NoHrefTest(doc, base) ==
    IF doc.next.present THEN urljoin(base, doc.next.href) ELSE NoneUrl

\* get_next_page_url(soup, base_url), lines 38-43
get_next_page_url(doc, base) ==
    IF doc.next.present /\ HrefTruthy(doc.next.href)
    THEN urljoin(base, doc.next.href)
    ELSE NoneUrl

\* search_url = get_next_page_url(soup, base_url), line 55
GetNextPageUrl ==
    /\ pc = "next"
    /\ search_url' = get_next_page_url(soup, base_url)
    /\ pc' = "while"
    /\ UNCHANGED <<argv, location, all_restaurants, soup, restaurants, idx, web,
                   fetched, file, saveCalls, console, exitcode, exc>>

Header == <<<<"Restaurant Name">>, <<"Phone Number">>>>

\* the rows save_to_csv writes, lines 63-65
CsvRows(data) == <<Header>> \o data

\* f"restaurants_without_websites_{quote_plus(location)}.csv"
OutputFilename(loc) ==
    <<"restaurants_without_websites_">> \o quote_plus(loc) \o <<".csv">>

\* a __main__ that writes no file when there are no results
SaveToCsv_SkipsEmpty ==
    /\ pc = "save"
    /\ IF all_restaurants = <<>>
       THEN UNCHANGED <<file, saveCalls>>
       ELSE /\ file' = [exists |-> TRUE, name |-> OutputFilename(location),
                        rows |-> CsvRows(all_restaurants)]
            /\ saveCalls' = saveCalls + 1
    /\ console' = Append(console, "Saved results")
    /\ exitcode' = 0
    /\ pc' = "exit"
    /\ UNCHANGED <<argv, location, search_url, all_restaurants, soup,
                   restaurants, idx, web, fetched, exc>>

\* lines 74-77: save_to_csv(results, output_filename), the last print, exit 0
SaveToCsv ==
    /\ pc = "save"
    /\ file' = [exists |-> TRUE, name |-> OutputFilename(location),
                rows |-> CsvRows(all_restaurants)]
    /\ saveCalls' = saveCalls + 1
    /\ console' = Append(console, "Saved results")
    /\ exitcode' = 0
    /\ pc' = "exit"
    /\ UNCHANGED <<argv, location, search_url, all_restaurants, soup,
                   restaurants, idx, web, fetched, exc>>

Next ==
    \/ Main
    \/ ScrapeInit
    \/ WhileTest
    \/ FetchPage
    \/ ParseBlock
    \/ ParseReturn
    \/ Extend
    \/ GetNextPageUrl
    \/ SaveToCsv

Spec == Init /\ [][Next]_vars

\* the interpreter always executes the next statement of a running script
LiveSpec == Spec /\ WF_vars(Next)

-----------------------------------------------------------------------------
(* parse_restaurants alone, on every document of up to MaxBlocks blocks *)

ParseInit ==
    /\ argv \in {<<Script, l>> : l \in Locations}
    /\ location = argv[2]
    /\ search_url = SearchUrl(location)
    /\ all_restaurants = <<>>
    /\ soup \in {Document(bs, NoNext) : bs \in SeqsUpTo(Blocks, MaxBlocks)}
    /\ restaurants = <<>>
    /\ idx = 1
    /\ web = {[url |-> search_url, ok |-> TRUE, doc |-> soup]}
    /\ fetched = <<search_url>>
    /\ file = NoFile
    /\ saveCalls = 0
    /\ console = <<>>
    /\ exitcode = -1
    /\ exc = "none"
    /\ pc = "parse"

ParseNext ==
    \/ ParseBlock
    \/ ParseReturn

ParseSpec == ParseInit /\ [][ParseNext]_vars

-----------------------------------------------------------------------------
(* What the claims speak of, stated without the operators of the script *)

Min(S) == CHOOSE x \in S : \A y \in S : x <= y
Max(S) == CHOOSE x \in S : \A y \in S : x >= y

NonBlank(t) == {k \in 1..Len(t) : t[k] \notin Whitespace}

\* t without its leading and trailing whitespace
Trimmed(t) ==
    IF NonBlank(t) = {} THEN <<>> ELSE SubSeq(t, Min(NonBlank(t)), Max(NonBlank(t)))

\* the listing a block stands for
ExpectedListing(b) ==
    <<Trimmed(b.name.text),
      IF b.phone.present THEN Trimmed(b.phone.text) ELSE Sentinel>>

\* the blocks without a website link among the first n of doc
KeptIdx(doc, n) == {i \in 1..n : ~doc.blocks[i].website}

\* position, in the output, of kept block i
Rank(doc, i) == Cardinality(KeptIdx(doc, i))

\* rs is the listings of the kept blocks among the first n, in document order
IsExtractOf(rs, doc, n) ==
    /\ Len(rs) = Cardinality(KeptIdx(doc, n))
    /\ \A i \in KeptIdx(doc, n) : rs[Rank(doc, i)] = ExpectedListing(doc.blocks[i])

ExpectedListings(doc) ==
    LET n == Len(doc.blocks)
        kept == KeptIdx(doc, n)
    IN  [k \in 1..Cardinality(kept) |->
            ExpectedListing(doc.blocks[CHOOSE i \in kept : Rank(doc, i) = k])]

\* concatenation of the listings of the first n pages visited
RECURSIVE ExpectedAcc(_)
ExpectedAcc(n) ==
    IF n = 0 THEN <<>>
    ELSE ExpectedAcc(n - 1) \o ExpectedListings(Answer(fetched[n]).doc)

FetchFailed == \E r \in web : ~r.ok

Faulted == exc = "AttributeError"

ExitedOk == pc = "exit" /\ exitcode = 0

\* the document has no usable "next" link
NoLink(doc) ==
    \/ ~doc.next.present
    \/ ~doc.next.href.present
    \/ doc.next.href = EmptyHref

-----------------------------------------------------------------------------
(* Claims *)

\* C1: when the fetch of a page fails, on the first page or a later one, the
\* process is at its exit with status 1, the failed request is the last one
\* issued, save_to_csv was never called and the run has produced no file.
C1_FetchFailureIsFatal ==
    FetchFailed =>
        /\ pc = "exit"
        /\ exitcode = 1
        /\ exc = "SystemExit"
        /\ ~Answer(fetched[Len(fetched)]).ok
        /\ \A i \in 1..(Len(fetched) - 1) : Answer(fetched[i]).ok
        /\ saveCalls = 0
        /\ ~file.exists

\* a later page fails after listings were accumulated
C1_Witness ==
    /\ FetchFailed
    /\ Len(fetched) >= 2
    /\ all_restaurants # <<>>
    /\ pc = "exit"

\* C2: while and after parse_restaurants runs, its result is exactly the
\* listings of the blocks without a website link among the blocks processed,
\* in document order, duplicates kept; no block with a website link is in it.
C2_ExtractIsFilterInOrder ==
    pc \in {"parse", "extend"} => IsExtractOf(restaurants, soup, idx - 1)

\* a block with a website link was dropped, the one after it kept
C2_Witness ==
    /\ pc = "extend"
    /\ Len(soup.blocks) = 2
    /\ soup.blocks[1].website
    /\ ~soup.blocks[2].website
    /\ Len(restaurants) = 1

\* C3: in the result of parse_restaurants the phone of a block without a phone
\* element is the sentinel, and the phone of a block with a phone element is
\* that element's trimmed text (even when the text is empty).
C3_PhoneOrSentinel ==
    pc \in {"parse", "extend"} =>
        \A i \in KeptIdx(soup, idx - 1) :
            /\ Rank(soup, i) \in DOMAIN restaurants
            /\ ~soup.blocks[i].phone.present =>
                  restaurants[Rank(soup, i)][2] = Sentinel
            /\ soup.blocks[i].phone.present =>
                  restaurants[Rank(soup, i)][2] = Trimmed(soup.blocks[i].phone.text)

\* one listing got the sentinel, another an empty phone text
C3_Witness ==
    /\ pc = "extend"
    /\ Len(restaurants) = 2
    /\ ~soup.blocks[1].phone.present
    /\ restaurants[1][2] = Sentinel
    /\ soup.blocks[2].phone.present
    /\ restaurants[2][2] = <<>>

\* C4: when the page just processed has no "next" element, or one without an
\* href or with an empty href, get_next_page_url returns None: the listings
\* of that page are in the accumulator, the loop test then leaves the loop
\* (DONE) without touching the accumulator, and no request is issued after.
C4_NoLinkEndsLoop ==
    /\ [](pc = "while" /\ fetched # <<>> /\ NoLink(soup) =>
              /\ search_url = NoneUrl
              /\ all_restaurants = ExpectedAcc(Len(fetched))
              /\ Answer(fetched[Len(fetched)]).doc = soup)
    /\ [][pc = "while" /\ fetched # <<>> /\ NoLink(soup) =>
              (pc' = "save" /\ all_restaurants' = all_restaurants
                 /\ fetched' = fetched)]_vars
    /\ [][(pc = "save" \/ pc = "exit") =>
              (pc' \in {"save", "exit"} /\ fetched' = fetched)]_vars

\* the loop ended on a second page whose "next" anchor has an empty href
C4_Witness ==
    /\ pc = "save"
    /\ Len(fetched) = 2
    /\ soup.next = NextButton(EmptyHref)
    /\ restaurants # <<>>
    /\ Len(all_restaurants) > Len(restaurants)

\* C5: a run without a location argument prints the usage message and exits
\* with status 1 at once: no request is issued and no file is written.
C5_UsageError ==
    Len(argv) <= 1 /\ pc # "main" =>
        /\ pc = "exit"
        /\ exitcode = 1
        /\ console = <<"Usage: python script_name.py 'Location'">>
        /\ fetched = <<>>
        /\ web = {}
        /\ saveCalls = 0
        /\ ~file.exists

C5_Witness == Len(argv) = 1 /\ pc = "exit" /\ exitcode = 1

\* C6: on a run that ends normally the file holds the header row and then one
\* row per listing of every visit, in the order of the visits and of the
\* blocks within a page, repeated listings included.
C6_CsvIsHeaderPlusAccumulator ==
    ExitedOk =>
        /\ file.exists
        /\ file.name = OutputFilename(location)
        /\ Len(file.rows) = 1 + Len(ExpectedAcc(Len(fetched)))
        /\ file.rows[1] = Header
        /\ \A k \in 1..Len(ExpectedAcc(Len(fetched))) :
              file.rows[k + 1] = ExpectedAcc(Len(fetched))[k]

\* two pages, and the same listing written twice
C6_Witness ==
    /\ ExitedOk
    /\ Len(fetched) >= 2
    /\ \E i, j \in 2..Len(file.rows) : i < j /\ file.rows[i] = file.rows[j]

\* C10: a listing block without a name element ends the run with an uncaught
\* exception when the loop reaches it, whether or not it has a website link;
\* parse_restaurants never returns on such a page, and the run writes no file.
C10_MissingNameIsFatal ==
    /\ [](Faulted =>
              /\ pc = "exit"
              /\ exitcode # 0
              /\ ~soup.blocks[idx].name.present
              /\ saveCalls = 0
              /\ ~file.exists)
    /\ [](pc \in {"extend", "next"} =>
              \A i \in 1..Len(soup.blocks) : soup.blocks[i].name.present)
    /\ [][pc = "parse" /\ idx <= Len(soup.blocks)
            /\ ~soup.blocks[idx].name.present => Faulted']_vars

\* the nameless block has a website link; listings of an earlier block and an
\* earlier page are lost
C10_Witness ==
    /\ Faulted
    /\ soup.blocks[idx].website
    /\ restaurants # <<>>
    /\ all_restaurants # <<>>
    /\ ~file.exists

\* some URL was requested twice
Revisited == \E i, j \in 1..Len(fetched) : i < j /\ fetched[i] = fetched[j]

\* C7: a run with a location whose chain of pages does not repeat, on which
\* no fetch fails and no block lacks its name, ends at exit status 0; a run
\* that ends with status 0 has called save_to_csv exactly once and written
\* the file, which holds the header row alone when no listing qualified.
C7_NormalRunTerminates ==
    /\ <>(ExitedOk \/ Len(argv) <= 1 \/ FetchFailed \/ Faulted \/ Revisited)
    /\ [](ExitedOk =>
              /\ saveCalls = 1
              /\ file.exists
              /\ ~search_url.set
              /\ (all_restaurants = <<>> => file.rows = <<Header>>))
    /\ [](saveCalls <= 1)

\* a normal end after two pages on which no listing qualified
C7_Witness ==
    /\ ExitedOk
    /\ Len(fetched) >= 2
    /\ ~Revisited
    /\ all_restaurants = <<>>
    /\ file.rows = <<Header>>

\* C8: every request goes to the host of base_url, the first of them to the
\* search URL of the location.
C8_SameHost ==
    \A i \in 1..Len(fetched) :
        /\ fetched[i].host = base_url.host
        /\ i = 1 => fetched[i] = SearchUrl(location)

\* the "next" link of some visited page leads to a page visited before it or
\* to that page itself
ChainRepeats ==
    \E j \in 1..Len(fetched) :
        /\ Answer(fetched[j]).ok
        /\ \E i \in 1..j :
              get_next_page_url(Answer(fetched[j]).doc, base_url) = fetched[i]

\* index of the first request for the URL requested last
FirstVisit == Min({i \in 1..Len(fetched) : fetched[i] = fetched[Len(fetched)]})

\* some block of a visited page has no name element
NamelessSeen ==
    \E r \in web : \E i \in 1..Len(r.doc.blocks) : ~r.doc.blocks[i].name.present

\* C9 as stated: when the chain of "next" links repeats and every fetch
\* succeeds, the run never leaves the loop or ends, the writer is never
\* invoked, and the accumulator has grown each time a page was visited again.
C9_Original ==
    ChainRepeats /\ ~FetchFailed =>
        /\ pc \notin {"save", "exit"}
        /\ saveCalls = 0
        /\ ~file.exists
        /\ Revisited /\ pc = "next" =>
              Len(all_restaurants) > Len(ExpectedAcc(FirstVisit))

\* C9, amended: when the chain of "next" links repeats, every fetch succeeds
\* and every listing block has a name, the loop is left only when search_url
\* is None, which never happens: the run never reaches DONE and never ends,
\* the writer is never invoked, and every visit, repeated ones included,
\* appends the listings of the page again, so that the accumulator has grown
\* on a repeated visit exactly when a listing qualified since the first one.
C9_CycleNeverDone ==
    /\ pc = "fetch" => search_url.set
    /\ pc = "save" => ~search_url.set
    /\ ChainRepeats /\ ~FetchFailed /\ ~NamelessSeen =>
          /\ pc \notin {"save", "exit"}
          /\ saveCalls = 0
          /\ ~file.exists
          /\ pc \in {"next", "while"} =>
                all_restaurants = ExpectedAcc(Len(fetched))
          /\ Revisited /\ pc = "next" =>
                /\ Len(all_restaurants) >= Len(ExpectedAcc(FirstVisit))
                /\ Len(all_restaurants) > Len(ExpectedAcc(FirstVisit))
                      <=> \E k \in (FirstVisit + 1)..Len(fetched) :
                            KeptIdx(Answer(fetched[k]).doc,
                                    Len(Answer(fetched[k]).doc.blocks)) # {}

\* the search page links to itself and was visited MaxFetches times, each
\* visit adding its two listings again
C9_Witness ==
    /\ ChainRepeats /\ ~FetchFailed /\ ~NamelessSeen
    /\ Revisited
    /\ pc = "next"
    /\ Len(fetched) = MaxFetches
    /\ Len(all_restaurants) = 2 * MaxFetches

====
